---- MODULE Spec2Model ----
(***************************************************************************)
(* Model of the gdlk task runner x.py: the command registry, the           *)
(* run_cmd / run_in_docker_service primitives, and the migration, seed,    *)
(* test and doc commands, together with the external tools they drive.     *)
(*                                                                         *)
(* Python values are modelled as follows: a list is a sequence, a dict is  *)
(* a sequence of <<key, value>> pairs with unique keys in insertion order, *)
(* a str is a string.                                                      *)
(***************************************************************************)
EXTENDS Integers, Sequences, FiniteSets, TLC

VARIABLES
    decls,       \* the decorated class definitions of the module, in source order
    regIdx,      \* index of the next class definition to be evaluated
    COMMANDS,    \* the registry dict: pairs <<name, class>>
    subparsers,  \* names for which main() has added a sub-parser
    pc,          \* position of the interpreter
    argv,        \* the command line the operator typed
    args,        \* the parsed arguments (argd)
    crateIdx,    \* loop index of Test.run
    seedIdx,     \* loop index of Seed.run
    child,       \* the foreground child process run_cmd waits for
    exc,         \* the exception in flight
    log,         \* everything observable, in order: output lines, spawns, exits
    exitStatus,  \* exit status of the CLI process, NotExited while it runs
    os_environ,  \* the environment of the CLI process
    world0,      \* the database when the CLI starts
    migrations,  \* number of migrations applied to the database
    testDb,      \* whether the database gdlk_test exists
    seedFiles,   \* what glob.glob(SEED_PATH) returns
    portBusy,    \* whether (host, port) is already bound by someone else
    watcher,     \* state of the cargo watch process of Docs.run
    faults,      \* number of tool failures not explained by the state above
    req,         \* arguments of a direct call of run_in_docker_service
    built,       \* the command line run_in_docker_service handed to run_cmd
    wsArgs,      \* the arguments of ws() of test_socket.py
    state_resp   \* state_resp of ws()

vars == <<decls, regIdx, COMMANDS, subparsers, pc, argv, args, crateIdx,
          seedIdx, child, exc, log, exitStatus, os_environ, world0, migrations,
          testDb, seedFiles, portBusy, watcher, faults, req, built, wsArgs,
          state_resp>>

wsVars == <<wsArgs, state_resp>>

(***************************************************************************)
(* Bounds of the model.                                                    *)
(***************************************************************************)
MaxMigrations == 2
MaxCrates == 2
MaxSeedFiles == 2
MaxFaults == 1
MaxEnv == 2
MaxArgv == 2

(***************************************************************************)
(* Module constants of x.py.                                               *)
(***************************************************************************)
DB_SERVICE == "db"
API_SERVICE == "api"
API_DEV_DB == "gdlk"
API_TEST_DB == "gdlk_test"

NotExited == -1
NoChild == [cmd |-> <<>>, site |-> "none"]
NoExc == [type |-> "none", cmd |-> <<>>, returncode |-> 0, site |-> "none"]

(***************************************************************************)
(* Python helpers.                                                         *)
(***************************************************************************)
\* " ".join(cmd)
RECURSIVE Join(_)
Join(s) ==
    IF s = <<>> THEN ""
    ELSE IF Len(s) = 1 THEN s[1]
    ELSE s[1] \o " " \o Join(Tail(s))

\* repr of a list of str
RECURSIVE ReprItems(_)
ReprItems(s) ==
    IF s = <<>> THEN ""
    ELSE IF Len(s) = 1 THEN "'" \o s[1] \o "'"
    ELSE "'" \o s[1] \o "', " \o ReprItems(Tail(s))

Repr(s) == "[" \o ReprItems(s) \o "]"

\* str(int(debug))
StrIntBool(b) == IF b THEN "1" ELSE "0"

DictKeys(d) == {d[i][1] : i \in 1..Len(d)}

DictGet(d, k) == d[CHOOSE i \in 1..Len(d) : d[i][1] = k][2]

\* d[k] = v on an insertion-ordered dict
DictSet(d, k, v) ==
    IF k \in DictKeys(d)
    THEN [i \in 1..Len(d) |-> IF d[i][1] = k THEN <<k, v>> ELSE d[i]]
    ELSE Append(d, <<k, v>>)

\* {**a, **b}
RECURSIVE DictMerge(_, _)
DictMerge(a, b) ==
    IF b = <<>> THEN a
    ELSE DictMerge(DictSet(a, b[1][1], b[1][2]), Tail(b))

\* str(e) of a subprocess.CalledProcessError
StrCalledProcessError(e) ==
    IF e.returncode < 0
    THEN "Command '" \o Repr(e.cmd) \o "' died with signal "
             \o ToString(0 - e.returncode) \o "."
    ELSE "Command '" \o Repr(e.cmd) \o "' returned non-zero exit status "
             \o ToString(e.returncode) \o "."

\* the exit status the operating system reports for exit(code)
ExitCode(code) == code % 256

Ev(kind, text, cmd, rc, env) ==
    [kind |-> kind, text |-> text, cmd |-> cmd, rc |-> rc, env |-> env]

(***************************************************************************)
(* The registry.                                                           *)
(***************************************************************************)
\* the four decorated classes of x.py, in source order
ModuleDecls ==
    << <<"migration", "Migrate">>, <<"seed", "Seed">>,
       <<"test", "Test">>, <<"doc", "Docs">> >>

\* a fifth class decorated with an already used name, at any place
InsertAt(s, i, e) == SubSeq(s, 1, i - 1) \o <<e>> \o SubSeq(s, i, Len(s))

DeclInputs ==
    {ModuleDecls} \cup
    {InsertAt(ModuleDecls, i, <<n, "Extra">>) :
        i \in 1..(Len(ModuleDecls) + 1), n \in DictKeys(ModuleDecls)}

\* faulty variant: a second registration replaces the first
command_Overwrite(registry, name, cls) ==
    [raised |-> FALSE, registry |-> DictSet(registry, name, cls)]

\* inner(cls) of command(name, help_text): the new registry, or the error
command(registry, name, cls) ==
    IF name \in DictKeys(registry)
    THEN [raised |-> TRUE, registry |-> registry]
    ELSE [raised |-> FALSE, registry |-> DictSet(registry, name, cls)]

(***************************************************************************)
(* run_in_docker_service and run_cmd.                                      *)
(***************************************************************************)
\* the value of a keyword argument, or the default of the signature
KwArg(kw, name, default) == IF name \in DOMAIN kw THEN kw[name] ELSE default

\* faulty variant: the entries of env are emitted last to first
RECURSIVE EnvArgs_Reversed(_)
EnvArgs_Reversed(env) ==
    IF env = <<>> THEN <<>>
    ELSE EnvArgs_Reversed(Tail(env))
             \o <<"-e", env[1][1] \o "=" \o env[1][2]>>

RECURSIVE EnvArgs(_)
EnvArgs(env) ==
    IF env = <<>> THEN <<>>
    ELSE <<"-e", env[1][1] \o "=" \o env[1][2]>> \o EnvArgs(Tail(env))

\* the command line run_in_docker_service passes to run_cmd
run_in_docker_service(service, cmd, kw) ==
    LET interactive == KwArg(kw, "interactive", FALSE)
        tty         == KwArg(kw, "tty", TRUE)
        env         == KwArg(kw, "env", <<>>)
        docker_args == (IF interactive THEN <<"-i">> ELSE <<>>)
                       \o (IF tty THEN <<"-t">> ELSE <<>>)
                       \o EnvArgs(env)
    IN  <<"docker", "exec">> \o docker_args
            \o <<"gdlk_" \o service \o "_1">> \o cmd

\* full_env of run_cmd; None makes the child inherit os.environ
ChildEnv(environ, env) ==
    IF env # <<>> THEN DictMerge(environ, env) ELSE environ

\* the line run_cmd prints
EchoLine(cmd) == "+ " \o Join(cmd)

(***************************************************************************)
(* The call sites: the arguments each one passes down.                     *)
(***************************************************************************)
NoKw == [k \in {} |-> TRUE]

DockerCall(service, cmd, kw) ==
    [docker |-> TRUE, service |-> service, cmd |-> cmd, kw |-> kw,
     env |-> <<>>]

LocalCall(cmd, env) ==
    [docker |-> FALSE, service |-> "", cmd |-> cmd, kw |-> NoKw, env |-> env]

RevertCall == DockerCall(API_SERVICE, <<"diesel", "migration", "revert">>, NoKw)

\* faulty variant: every action runs the pending migrations
MigrateCall_AlwaysRun(action) ==
    DockerCall(API_SERVICE, <<"diesel", "migration", "run">>, NoKw)

MigrateCall(action) ==
    DockerCall(API_SERVICE, <<"diesel", "migration", action>>, NoKw)

SeedCall ==
    DockerCall(DB_SERVICE, <<"psql", API_DEV_DB>>,
               [interactive |-> TRUE, tty |-> FALSE])

TestCoreCall(debug, tests, backtrace) ==
    LocalCall(<<"cargo", "test", "-p", "gdlk">> \o tests
                  \o <<"--", "--nocapture">>,
              << <<"DEBUG", StrIntBool(debug)>>,
                 <<"RUST_BACKTRACE", backtrace>> >>)

ApiDropCall == DockerCall(DB_SERVICE, <<"dropdb", API_TEST_DB>>, NoKw)

ApiCreateCall == DockerCall(DB_SERVICE, <<"createdb", API_TEST_DB>>, NoKw)

ApiInitCall ==
    DockerCall(DB_SERVICE,
               <<"sh", "-c",
                 "psql " \o API_TEST_DB \o " -f /docker-entrypoint-initdb.d/*">>,
               NoKw)

db_url == "postgres://root:root@db/" \o API_TEST_DB

ApiMigrateCall(debug) ==
    DockerCall(API_SERVICE,
               <<"diesel", "migration", "run", "--locked-schema">>,
               [env |-> << <<"DEBUG", StrIntBool(debug)>>,
                           <<"DATABASE_URL", db_url>> >>])

ApiRunCall(tests, backtrace) ==
    DockerCall(API_SERVICE,
               <<"cargo", "test">> \o tests \o <<"--", "--nocapture">>,
               [env |-> << <<"DATABASE_URL", db_url>>,
                           <<"RUST_BACKTRACE", backtrace>> >>])

\* the watcher Docs.run starts with subprocess.Popen
WatcherCmd == <<"cargo", "watch", "-x", "doc --document-private-items">>

CallSites ==
    {"revert_all", "migrate_action", "seed_file", "test_core", "api_drop",
     "api_create", "api_init", "api_migrate", "api_run"}

SiteCall(site) ==
    CASE site = "revert_all"     -> RevertCall
      [] site = "migrate_action" -> MigrateCall(args.action)
      [] site = "seed_file"      -> SeedCall
      [] site = "test_core"      ->
             TestCoreCall(args.debug, args.tests, args.backtrace)
      [] site = "api_drop"       -> ApiDropCall
      [] site = "api_create"     -> ApiCreateCall
      [] site = "api_init"       -> ApiInitCall
      [] site = "api_migrate"    -> ApiMigrateCall(args.debug)
      [] site = "api_run"        -> ApiRunCall(args.tests, args.backtrace)

\* the argv that reaches subprocess.run from a call site
SiteCmd(site) ==
    LET c == SiteCall(site)
    IN  IF c.docker THEN run_in_docker_service(c.service, c.cmd, c.kw)
        ELSE c.cmd

(***************************************************************************)
(* The command line and the parsed arguments.                              *)
(***************************************************************************)
CrateNames == {"core", "api", "web"}

\* self._CRATES of Test.__init__, in insertion order
TestCrates == << <<"core", "test_core">>, <<"api", "test_api">> >>

RECURSIVE DictKeyList(_)
DictKeyList(d) ==
    IF d = <<>> THEN <<>> ELSE <<d[1][1]>> \o DictKeyList(Tail(d))

SeqsUpTo(S, n) == UNION {[1..k -> S] : k \in 0..n}

NoArgs ==
    [cmd |-> "", action |-> "", crates |-> <<>>, debug |-> FALSE,
     tests |-> <<>>, backtrace |-> "", serve |-> FALSE, host |-> "",
     port |-> 0]

\* what the operator typed; "" and 0 stand for an option left out
ArgvInputs ==
    {[NoArgs EXCEPT !.cmd = "migration", !.action = a] :
        a \in {"run", "revert", "redo", "revert-all"}}
    \cup {[NoArgs EXCEPT !.cmd = "seed"]}
    \cup {[NoArgs EXCEPT !.cmd = "test", !.crates = c, !.debug = d,
                         !.tests = t, !.backtrace = b] :
            c \in SeqsUpTo(CrateNames, MaxCrates), d \in BOOLEAN,
            t \in {<<>>, <<"parse">>}, b \in {"", "full"}}
    \cup {[NoArgs EXCEPT !.cmd = "doc", !.serve = s, !.host = h, !.port = p] :
            s \in BOOLEAN, h \in {"", "127.0.0.1"}, p \in {0, 9000}}
    \cup {[NoArgs EXCEPT !.cmd = "lint"]}

\* the defaults of the configure_parser methods
ParseArgs(raw) ==
    CASE raw.cmd = "test" ->
             [raw EXCEPT
                 !.crates = IF raw.crates = <<>>
                            THEN DictKeyList(TestCrates) ELSE raw.crates,
                 !.backtrace = IF raw.backtrace = ""
                               THEN "0" ELSE raw.backtrace]
      [] raw.cmd = "doc" ->
             [raw EXCEPT
                 !.host = IF raw.host = "" THEN "0.0.0.0" ELSE raw.host,
                 !.port = IF raw.port = 0 THEN 8080 ELSE raw.port]
      [] OTHER -> raw

\* the first position inside the run method of a handler class
Entry(cls) ==
    CASE cls = "Migrate" -> "migrate_run"
      [] cls = "Seed"    -> "seed_loop"
      [] cls = "Test"    -> "test_loop"
      [] cls = "Docs"    -> "doc_popen"

EnvironInputs ==
    { << <<"PATH", "/usr/bin">> >>,
      << <<"PATH", "/usr/bin">>, <<"DEBUG", "1">> >> }

SeedFileInputs ==
    {SubSeq(<<"./api/seeds/a.sql", "./api/seeds/b.sql", "./api/seeds/c.sql">>,
            1, n) : n \in 0..MaxSeedFiles}

(***************************************************************************)
(* The external tools: exit code and effect of one run of the command of   *)
(* a call site, in the current state of the database.                      *)
(***************************************************************************)
Outcome(rc, m, db) ==
    [rc |-> rc, migrations |-> m, testDb |-> db, fault |-> FALSE]

ToolOutcomes(site, cmd) ==
    CASE site = "revert_all" \/ (site = "migrate_action" /\ cmd[3] = "revert") ->
             IF migrations > 0
             THEN {Outcome(0, migrations - 1, testDb)}
             ELSE {Outcome(1, migrations, testDb)}
      [] site = "migrate_action" /\ cmd[3] = "run" ->
             {Outcome(0, MaxMigrations, testDb)}
      [] site = "migrate_action" /\ cmd[3] = "redo" ->
             IF migrations > 0
             THEN {Outcome(0, migrations, testDb)}
             ELSE {Outcome(1, migrations, testDb)}
      [] site = "seed_file" -> {Outcome(0, migrations, testDb)}
      [] site = "test_core" ->
             {Outcome(0, migrations, testDb), Outcome(101, migrations, testDb)}
      [] site = "api_drop" ->
             IF testDb
             THEN {Outcome(0, migrations, FALSE)}
             ELSE {Outcome(1, migrations, testDb)}
      [] site = "api_create" ->
             IF testDb
             THEN {Outcome(1, migrations, testDb)}
             ELSE {Outcome(0, migrations, TRUE)}
      [] site = "api_init" ->
             IF testDb
             THEN {Outcome(0, migrations, testDb)}
             ELSE {Outcome(2, migrations, testDb)}
      [] site = "api_migrate" ->
             IF testDb
             THEN {Outcome(0, migrations, testDb)}
             ELSE {Outcome(1, migrations, testDb)}
      [] site = "api_run" ->
             {Outcome(0, migrations, testDb), Outcome(101, migrations, testDb)}

\* exit codes of a failure the state of the database does not explain:
\* the docker daemon fails (docker exits 125), the child is killed (-9)
FaultCodes == {125, -9}

Outcomes(site, cmd) ==
    ToolOutcomes(site, cmd) \cup
    (IF faults < MaxFaults
     THEN {[rc |-> c, migrations |-> migrations, testDb |-> testDb,
            fault |-> TRUE] : c \in FaultCodes}
     ELSE {})

(***************************************************************************)
(* Initial state: the module is about to be executed.  The database, the   *)
(* seed directory and the port are only varied for the command that uses   *)
(* them.                                                                   *)
(***************************************************************************)
NoReq == [service |-> "", cmd |-> <<>>, kw |-> NoKw]

\* ws() of test_socket.py has not been called
NoWsArgs == [script |-> "", host |-> "", program_spec_id |-> "", uri |-> "",
             file |-> <<>>]
NoResp == [type |-> "", is_complete |-> FALSE, parse_error |-> FALSE]

Init ==
    /\ decls \in DeclInputs
    /\ regIdx = 1
    /\ COMMANDS = <<>>
    /\ subparsers = {}
    /\ pc = "import"
    /\ argv \in ArgvInputs
    /\ args = NoArgs
    /\ crateIdx = 1
    /\ seedIdx = 1
    /\ child = NoChild
    /\ exc = NoExc
    /\ log = <<>>
    /\ exitStatus = NotExited
    /\ os_environ \in EnvironInputs
    /\ migrations \in (IF argv.cmd = "migration" THEN 0..MaxMigrations ELSE {0})
    /\ testDb \in (IF argv.cmd = "test" THEN BOOLEAN ELSE {FALSE})
    /\ world0 = [migrations |-> migrations, testDb |-> testDb]
    /\ seedFiles \in (IF argv.cmd = "seed" THEN SeedFileInputs ELSE {<<>>})
    /\ portBusy \in (IF argv.cmd = "doc" THEN BOOLEAN ELSE {FALSE})
    /\ watcher = "none"
    /\ faults = 0
    /\ req = NoReq
    /\ built = <<>>
    /\ wsArgs = NoWsArgs
    /\ state_resp = NoResp

worldVars == <<migrations, testDb, faults>>
regVars == <<decls, regIdx, COMMANDS, subparsers>>
inputVars == <<argv, os_environ, world0, seedFiles, portBusy>>
execVars == <<req, built>>

(***************************************************************************)
(* Module execution and main().                                            *)
(***************************************************************************)
\* one decorated class definition is evaluated
Register ==
    /\ pc = "import"
    /\ regIdx <= Len(decls)
    /\ LET r == command(COMMANDS, decls[regIdx][1], decls[regIdx][2])
       IN  IF r.raised
           THEN /\ exc' = [NoExc EXCEPT !.type = "ValueError"]
                /\ pc' = "uncaught"
                /\ UNCHANGED <<COMMANDS, regIdx>>
           ELSE /\ COMMANDS' = r.registry
                /\ regIdx' = regIdx + 1
                /\ UNCHANGED <<exc, pc>>
    /\ UNCHANGED <<decls, subparsers, argv, args, crateIdx, seedIdx, child,
                   log, exitStatus, os_environ, world0, wsVars, seedFiles, portBusy, watcher,
                   worldVars, execVars>>

\* main() builds one sub-parser per registered command
MainBuildParser ==
    /\ pc = "import"
    /\ regIdx > Len(decls)
    /\ subparsers' = DictKeys(COMMANDS)
    /\ pc' = "parse"
    /\ UNCHANGED <<decls, regIdx, COMMANDS, argv, args, crateIdx, seedIdx,
                   child, exc, log, exitStatus, os_environ, world0, wsVars, seedFiles,
                   portBusy, watcher, worldVars, execVars>>

\* parser.parse_args(): argparse exits with status 2 on an unknown command
MainParse ==
    /\ pc = "parse"
    /\ IF argv.cmd \in subparsers
       THEN /\ args' = ParseArgs(argv)
            /\ pc' = "dispatch"
            /\ UNCHANGED <<log, exitStatus>>
       ELSE /\ log' = Append(log, Ev("stderr", "usage: invalid choice",
                                     <<>>, 0, <<>>))
            /\ exitStatus' = ExitCode(2)
            /\ pc' = "exited"
            /\ UNCHANGED args
    /\ UNCHANGED <<regVars, argv, crateIdx, seedIdx, child, exc, os_environ, world0, wsVars,
                   seedFiles, portBusy, watcher, worldVars, execVars>>

\* faulty variant: the handler is taken out of the registry when dispatched
MainDispatch_Pop ==
    /\ pc = "dispatch"
    /\ pc' = Entry(DictGet(COMMANDS, args.cmd))
    /\ COMMANDS' = SelectSeq(COMMANDS, LAMBDA e : e[1] # args.cmd)
    /\ UNCHANGED <<decls, regIdx, subparsers, argv, args, crateIdx, seedIdx, child, exc, log,
                   exitStatus, os_environ, world0, wsVars, seedFiles, portBusy, watcher,
                   worldVars, execVars>>

\* func(**argd)
MainDispatch ==
    /\ pc = "dispatch"
    /\ pc' = Entry(DictGet(COMMANDS, args.cmd))
    /\ UNCHANGED <<regVars, argv, args, crateIdx, seedIdx, child, exc, log,
                   exitStatus, os_environ, world0, wsVars, seedFiles, portBusy, watcher,
                   worldVars, execVars>>

\* func returned
MainReturn ==
    /\ pc = "main_return"
    /\ exitStatus' = 0
    /\ pc' = "exited"
    /\ UNCHANGED <<regVars, argv, args, crateIdx, seedIdx, child, exc, log,
                   os_environ, world0, wsVars, seedFiles, portBusy, watcher, worldVars,
                   execVars>>

\* faulty variant: main() always exits with 1
MainExitCode_One(e) == 1

\* the exit code main() passes to exit()
MainExitCode(e) == e.returncode

\* faulty variant: main() reports the failure and runs the command again
MainExcept_Retry ==
    /\ pc = "main_except"
    /\ log' = Append(log, Ev("stderr", StrCalledProcessError(exc), exc.cmd,
                             exc.returncode, <<>>))
    /\ UNCHANGED exitStatus
    /\ pc' = "dispatch"
    /\ UNCHANGED <<regVars, argv, args, crateIdx, seedIdx, child, exc,
                   os_environ, world0, wsVars, seedFiles, portBusy, watcher, worldVars,
                   execVars>>

\* except subprocess.CalledProcessError as e
MainExcept ==
    /\ pc = "main_except"
    /\ log' = Append(log, Ev("stderr", StrCalledProcessError(exc), exc.cmd,
                             exc.returncode, <<>>))
    /\ exitStatus' = ExitCode(MainExitCode(exc))
    /\ pc' = "exited"
    /\ UNCHANGED <<regVars, argv, args, crateIdx, seedIdx, child, exc,
                   os_environ, world0, wsVars, seedFiles, portBusy, watcher, worldVars,
                   execVars>>

\* an exception nothing catches: the interpreter prints the traceback
Uncaught ==
    /\ pc = "uncaught"
    /\ log' = Append(log, Ev("stderr", "Traceback: " \o exc.type, <<>>, 0,
                             <<>>))
    /\ exitStatus' = ExitCode(1)
    /\ pc' = "exited"
    /\ UNCHANGED <<regVars, argv, args, crateIdx, seedIdx, child, exc,
                   os_environ, world0, wsVars, seedFiles, portBusy, watcher, worldVars,
                   execVars>>

(***************************************************************************)
(* run_cmd: the echo and the start of the child; the wait for its exit is  *)
(* part of the action of the call site, which also handles the exception.  *)
(***************************************************************************)
RunCmdEvents(site, cmd, env) ==
    << Ev("stdout", EchoLine(cmd), cmd, 0, <<>>),
       Ev("spawn", site, cmd, 0, ChildEnv(os_environ, env)) >>

\* faulty variant: run_cmd updates os.environ with env instead of copying it
RunCmdStart_Update ==
    /\ pc \in CallSites
    /\ child = NoChild
    /\ LET c == SiteCall(pc)
           cmd == SiteCmd(pc)
       IN  /\ log' = log \o RunCmdEvents(pc, cmd, c.env)
           /\ child' = [cmd |-> cmd, site |-> pc]
           /\ os_environ' = ChildEnv(os_environ, c.env)
           /\ IF c.docker
              THEN /\ req' = [service |-> c.service, cmd |-> c.cmd,
                              kw |-> c.kw]
                   /\ built' = cmd
              ELSE UNCHANGED <<req, built>>
    /\ UNCHANGED <<regVars, pc, argv, args, crateIdx, seedIdx, exc,
                   exitStatus, world0, wsVars, seedFiles, portBusy, watcher,
                   worldVars>>

RunCmdStart ==
    /\ pc \in CallSites
    /\ child = NoChild
    /\ LET c == SiteCall(pc)
           cmd == SiteCmd(pc)
       IN  /\ log' = log \o RunCmdEvents(pc, cmd, c.env)
           /\ child' = [cmd |-> cmd, site |-> pc]
           /\ IF c.docker
              THEN /\ req' = [service |-> c.service, cmd |-> c.cmd,
                              kw |-> c.kw]
                   /\ built' = cmd
              ELSE UNCHANGED <<req, built>>
    /\ UNCHANGED <<regVars, pc, argv, args, crateIdx, seedIdx, exc,
                   exitStatus, os_environ, world0, wsVars, seedFiles, portBusy, watcher,
                   worldVars>>

\* the child of run_cmd exits with outcome o
ChildExit(o) ==
    /\ log' = Append(log, Ev("exit", child.site, child.cmd, o.rc, <<>>))
    /\ child' = NoChild
    /\ migrations' = o.migrations
    /\ testDb' = o.testDb
    /\ faults' = faults + (IF o.fault THEN 1 ELSE 0)

\* check=True: the exception subprocess.run raises for exit code rc
CalledProcessError(rc) ==
    [type |-> "CalledProcessError", cmd |-> child.cmd, returncode |-> rc,
     site |-> child.site]

SiteOutcomes == Outcomes(pc, SiteCall(pc).cmd)

frameSite == <<regVars, argv, args, seedIdx, exitStatus, os_environ, world0, wsVars,
               seedFiles, portBusy, watcher, execVars>>

(***************************************************************************)
(* Migrate.                                                                *)
(***************************************************************************)
\* Migrate.run: the branch on the action
MigrateRun ==
    /\ pc = "migrate_run"
    /\ pc' = IF args.action = "revert-all" THEN "revert_all"
             ELSE "migrate_action"
    /\ UNCHANGED <<regVars, argv, args, crateIdx, seedIdx, child, exc, log,
                   exitStatus, os_environ, world0, wsVars, seedFiles, portBusy, watcher,
                   worldVars, execVars>>

\* faulty variant: revert_all without the loop
RevertAllNext_NoLoop(rc) == "main_return"

\* faulty variant: only exit code 1 is taken for "nothing left to revert"
RevertAllNext_OnlyCodeOne(rc) ==
    IF rc = 0 THEN "revert_all"
    ELSE IF rc = 1 THEN "main_return" ELSE "main_except"

\* what revert_all does when a revert has exited with code rc
RevertAllNext(rc) == IF rc = 0 THEN "revert_all" ELSE "main_return"

\* Migrate.revert_all: one revert has exited; loop, or catch the failure
RevertAllReturn ==
    /\ pc = "revert_all"
    /\ child # NoChild
    /\ \E o \in SiteOutcomes :
          /\ ChildExit(o)
          /\ pc' = RevertAllNext(o.rc)
    /\ UNCHANGED <<frameSite, crateIdx, exc>>

\* Migrate.run: the single run, revert or redo has exited
MigrateActionReturn ==
    /\ pc = "migrate_action"
    /\ child # NoChild
    /\ \E o \in SiteOutcomes :
          /\ ChildExit(o)
          /\ IF o.rc = 0
             THEN pc' = "main_return" /\ UNCHANGED exc
             ELSE pc' = "main_except" /\ exc' = CalledProcessError(o.rc)
    /\ UNCHANGED <<frameSite, crateIdx>>

(***************************************************************************)
(* Seed.                                                                   *)
(***************************************************************************)
\* Seed.run: the head of the loop over the seed files
SeedLoop ==
    /\ pc = "seed_loop"
    /\ IF seedIdx <= Len(seedFiles)
       THEN /\ log' = Append(log, Ev("stdout",
                                     "Executing " \o seedFiles[seedIdx] \o "...",
                                     <<>>, 0, <<>>))
            /\ pc' = "seed_file"
       ELSE /\ pc' = "main_return"
            /\ UNCHANGED log
    /\ UNCHANGED <<regVars, argv, args, crateIdx, seedIdx, child, exc,
                   exitStatus, os_environ, world0, wsVars, seedFiles, portBusy, watcher,
                   worldVars, execVars>>

\* Seed.run: psql has exited for one file
SeedFileReturn ==
    /\ pc = "seed_file"
    /\ child # NoChild
    /\ \E o \in SiteOutcomes :
          /\ ChildExit(o)
          /\ IF o.rc = 0
             THEN /\ pc' = "seed_loop"
                  /\ seedIdx' = seedIdx + 1
                  /\ UNCHANGED exc
             ELSE /\ pc' = "main_except"
                  /\ exc' = CalledProcessError(o.rc)
                  /\ UNCHANGED seedIdx
    /\ UNCHANGED <<regVars, argv, args, crateIdx, exitStatus, os_environ,
                   world0, wsVars, seedFiles, portBusy, watcher, execVars>>

(***************************************************************************)
(* Test.                                                                   *)
(***************************************************************************)
\* faulty variant: the crates are visited from the last to the first
CrateAt_Reversed(crates, idx) == crates[Len(crates) - idx + 1]

\* for crate in crates: the crate of iteration idx
CrateAt(crates, idx) == crates[idx]

\* Test.run: the head of the loop over the crates
TestLoop ==
    /\ pc = "test_loop"
    /\ IF crateIdx <= Len(args.crates)
       THEN LET crate == CrateAt(args.crates, crateIdx)
            IN  /\ log' = Append(log, Ev("stdout",
                                         "===== Testing " \o crate \o " =====",
                                         <<>>, 0, <<>>))
                /\ IF crate \in DictKeys(TestCrates)
                   THEN /\ pc' = IF DictGet(TestCrates, crate) = "test_core"
                                 THEN "test_core" ELSE "api_drop"
                        /\ UNCHANGED exc
                   ELSE /\ pc' = "uncaught"
                        /\ exc' = [NoExc EXCEPT !.type = "KeyError"]
       ELSE /\ pc' = "main_return"
            /\ UNCHANGED <<log, exc>>
    /\ UNCHANGED <<regVars, argv, args, crateIdx, seedIdx, child, exitStatus,
                   os_environ, world0, wsVars, seedFiles, portBusy, watcher, worldVars,
                   execVars>>

\* whether test_core lets a failure of the test runner propagate
TestCoreRaises(rc) == rc # 0

\* Test.test_core: cargo test has exited
TestCoreReturn ==
    /\ pc = "test_core"
    /\ child # NoChild
    /\ \E o \in SiteOutcomes :
          /\ ChildExit(o)
          /\ IF TestCoreRaises(o.rc)
             THEN /\ pc' = "main_except"
                  /\ exc' = CalledProcessError(o.rc)
                  /\ UNCHANGED crateIdx
             ELSE /\ pc' = "test_loop"
                  /\ crateIdx' = crateIdx + 1
                  /\ UNCHANGED exc
    /\ UNCHANGED frameSite

\* faulty variant: the failure of dropdb is not caught
ApiDropNext_Raise(rc) == IF rc = 0 THEN "api_create" ELSE "main_except"

\* where test_api goes when dropdb has exited with code rc
ApiDropNext(rc) == "api_create"

\* Test.test_api: dropdb has exited; a failure is caught
ApiDropReturn ==
    /\ pc = "api_drop"
    /\ child # NoChild
    /\ \E o \in SiteOutcomes :
          /\ ChildExit(o)
          /\ pc' = ApiDropNext(o.rc)
    /\ UNCHANGED <<frameSite, crateIdx, exc>>

\* faulty variant: the failure of a provisioning step is caught
ApiStepNext_Swallow(rc, next) == next

\* faulty variant: a successful step goes straight to the test run
ApiStepNext_Skip(rc, next) == IF rc = 0 THEN "api_run" ELSE "main_except"

\* faulty variant: only the failure of createdb propagates
ApiStepNext_OnlyCreate(rc, next) ==
    IF rc = 0 \/ next # "api_init" THEN next ELSE "main_except"

\* where test_api goes when a provisioning step has exited with code rc
ApiStepNext(rc, next) == IF rc = 0 THEN next ELSE "main_except"

\* Test.test_api: createdb has exited
ApiCreateReturn ==
    /\ pc = "api_create"
    /\ child # NoChild
    /\ \E o \in SiteOutcomes :
          /\ ChildExit(o)
          /\ pc' = ApiStepNext(o.rc, "api_init")
          /\ exc' = IF pc' = "main_except" THEN CalledProcessError(o.rc)
                    ELSE exc
    /\ UNCHANGED <<frameSite, crateIdx>>

\* Test.test_api: the init scripts have exited
ApiInitReturn ==
    /\ pc = "api_init"
    /\ child # NoChild
    /\ \E o \in SiteOutcomes :
          /\ ChildExit(o)
          /\ pc' = ApiStepNext(o.rc, "api_migrate")
          /\ exc' = IF pc' = "main_except" THEN CalledProcessError(o.rc)
                    ELSE exc
    /\ UNCHANGED <<frameSite, crateIdx>>

\* Test.test_api: diesel migration run has exited
ApiMigrateReturn ==
    /\ pc = "api_migrate"
    /\ child # NoChild
    /\ \E o \in SiteOutcomes :
          /\ ChildExit(o)
          /\ pc' = ApiStepNext(o.rc, "api_run")
          /\ exc' = IF pc' = "main_except" THEN CalledProcessError(o.rc)
                    ELSE exc
    /\ UNCHANGED <<frameSite, crateIdx>>

\* whether test_api lets a failure of the test runner propagate
ApiRunRaises(rc) == FALSE

\* Test.test_api: cargo test has exited; a failure is caught
ApiRunReturn ==
    /\ pc = "api_run"
    /\ child # NoChild
    /\ \E o \in SiteOutcomes :
          /\ ChildExit(o)
          /\ IF ApiRunRaises(o.rc)
             THEN /\ pc' = "main_except"
                  /\ exc' = CalledProcessError(o.rc)
                  /\ UNCHANGED crateIdx
             ELSE /\ pc' = "test_loop"
                  /\ crateIdx' = crateIdx + 1
                  /\ UNCHANGED exc
    /\ UNCHANGED frameSite

(***************************************************************************)
(* Docs.                                                                   *)
(***************************************************************************)
\* Docs.run: subprocess.Popen starts the watcher in the background
DocPopen ==
    /\ pc = "doc_popen"
    /\ log' = Append(log, Ev("spawn", "doc_popen", WatcherCmd, 0, os_environ))
    /\ watcher' = "running"
    /\ pc' = IF args.serve THEN "doc_bind" ELSE "doc_communicate"
    /\ UNCHANGED <<regVars, argv, args, crateIdx, seedIdx, child, exc,
                   exitStatus, os_environ, world0, wsVars, seedFiles, portBusy, worldVars,
                   execVars>>

\* faulty variant: terminate() after the try statement, not in a finally
DocLeaveTry_NoFinally(how) ==
    IF how = "error" THEN "uncaught" ELSE "doc_finally"

\* Docs.run: where control goes when the try block is left by a return, by
\* KeyboardInterrupt or by another exception
DocLeaveTry(how) == "doc_finally"

\* Docs.run: socketserver.TCPServer((host, port), Handler) binds, or raises
DocBind ==
    /\ pc = "doc_bind"
    /\ IF portBusy
       THEN /\ exc' = [NoExc EXCEPT !.type = "OSError"]
            /\ pc' = DocLeaveTry("error")
            /\ UNCHANGED log
       ELSE /\ log' = Append(log, Ev("stdout",
                                     "Hosting docs on " \o args.host \o ":"
                                         \o ToString(args.port),
                                     <<>>, 0, <<>>))
            /\ pc' = "doc_serve"
            /\ UNCHANGED exc
    /\ UNCHANGED <<regVars, argv, args, crateIdx, seedIdx, child, exitStatus,
                   os_environ, world0, wsVars, seedFiles, portBusy, watcher, worldVars,
                   execVars>>

\* the operator interrupts inside the try block: except KeyboardInterrupt
DocInterrupt ==
    /\ pc \in {"doc_bind", "doc_serve", "doc_communicate"}
    /\ pc' = DocLeaveTry("interrupt")
    /\ UNCHANGED <<regVars, argv, args, crateIdx, seedIdx, child, exc, log,
                   exitStatus, os_environ, world0, wsVars, seedFiles, portBusy, watcher,
                   worldVars, execVars>>

\* the watcher exits by itself
WatcherExit ==
    /\ watcher = "running"
    /\ pc \in {"doc_bind", "doc_serve", "doc_communicate", "doc_finally"}
    /\ watcher' = "exited"
    /\ log' = Append(log, Ev("exit", "doc_popen", WatcherCmd, 0, <<>>))
    /\ UNCHANGED <<regVars, pc, argv, args, crateIdx, seedIdx, child, exc,
                   exitStatus, os_environ, world0, wsVars, seedFiles, portBusy, worldVars,
                   execVars>>

\* Docs.run: cargo_process.communicate() returns once the watcher has exited
DocCommunicateReturn ==
    /\ pc = "doc_communicate"
    /\ watcher = "exited"
    /\ pc' = DocLeaveTry("return")
    /\ UNCHANGED <<regVars, argv, args, crateIdx, seedIdx, child, exc, log,
                   exitStatus, os_environ, world0, wsVars, seedFiles, portBusy, watcher,
                   worldVars, execVars>>

\* Docs.run: finally: cargo_process.terminate(), which sends SIGTERM unless
\* the watcher has already exited
DocFinally ==
    /\ pc = "doc_finally"
    /\ log' = Append(log, Ev("terminate", "doc_popen", WatcherCmd, 15, <<>>))
    /\ watcher' = IF watcher = "running" THEN "terminated" ELSE watcher
    /\ pc' = IF exc # NoExc THEN "uncaught" ELSE "main_return"
    /\ UNCHANGED <<regVars, argv, args, crateIdx, seedIdx, child, exc,
                   exitStatus, os_environ, world0, wsVars, seedFiles, portBusy, worldVars,
                   execVars>>

(***************************************************************************)
(* The CLI process.                                                        *)
(***************************************************************************)
Next ==
    \/ Register
    \/ MainBuildParser
    \/ MainParse
    \/ MainDispatch
    \/ MainReturn
    \/ MainExcept
    \/ Uncaught
    \/ RunCmdStart
    \/ MigrateRun
    \/ RevertAllReturn
    \/ MigrateActionReturn
    \/ SeedLoop
    \/ SeedFileReturn
    \/ TestLoop
    \/ TestCoreReturn
    \/ ApiDropReturn
    \/ ApiCreateReturn
    \/ ApiInitReturn
    \/ ApiMigrateReturn
    \/ ApiRunReturn
    \/ DocPopen
    \/ DocBind
    \/ DocInterrupt
    \/ WatcherExit
    \/ DocCommunicateReturn
    \/ DocFinally

Spec == Init /\ [][Next]_vars

(***************************************************************************)
(* run_in_docker_service called directly, on arbitrary arguments.          *)
(***************************************************************************)
EnvKeys == {"DEBUG", "DATABASE_URL", "RUST_BACKTRACE"}
EnvValues == {"1", "x"}

\* dicts of at most n entries
DictsUpTo(n) ==
    {d \in SeqsUpTo(EnvKeys \X EnvValues, n) :
        \A i, j \in 1..Len(d) : i # j => d[i][1] # d[j][1]}

Tristate == {"unset", "true", "false"}

\* the keyword arguments of one call; "unset" leaves the argument out
KwOf(i, t, hasEnv, e) ==
    [k \in (IF i = "unset" THEN {} ELSE {"interactive"})
           \cup (IF t = "unset" THEN {} ELSE {"tty"})
           \cup (IF hasEnv THEN {"env"} ELSE {}) |->
        CASE k = "interactive" -> (i = "true")
          [] k = "tty"         -> (t = "true")
          [] k = "env"         -> e]

ReqInputs ==
    {[service |-> s, cmd |-> c, kw |-> KwOf(i, t, h, e)] :
        s \in {DB_SERVICE, API_SERVICE},
        c \in SeqsUpTo({"psql", "-l"}, MaxArgv),
        i \in Tristate, t \in Tristate, h \in BOOLEAN,
        e \in DictsUpTo(MaxEnv)}

InitExec ==
    /\ decls = ModuleDecls
    /\ regIdx = 1
    /\ COMMANDS = <<>>
    /\ subparsers = {}
    /\ pc = "exec_call"
    /\ argv = NoArgs
    /\ args = NoArgs
    /\ crateIdx = 1
    /\ seedIdx = 1
    /\ child = NoChild
    /\ exc = NoExc
    /\ log = <<>>
    /\ exitStatus = NotExited
    /\ os_environ \in EnvironInputs
    /\ migrations = 0
    /\ world0 = [migrations |-> 0, testDb |-> FALSE]
    /\ testDb = FALSE
    /\ seedFiles = <<>>
    /\ portBusy = FALSE
    /\ watcher = "none"
    /\ faults = 0
    /\ req \in ReqInputs
    /\ built = <<>>
    /\ wsArgs = NoWsArgs
    /\ state_resp = NoResp

\* run_in_docker_service builds the command line and calls run_cmd
ExecCall ==
    /\ pc = "exec_call"
    /\ built' = run_in_docker_service(req.service, req.cmd, req.kw)
    /\ log' = log \o RunCmdEvents("exec_call", built', <<>>)
    /\ child' = [cmd |-> built', site |-> "exec_call"]
    /\ pc' = "exec_wait"
    /\ UNCHANGED <<regVars, argv, args, crateIdx, seedIdx, exc, exitStatus,
                   os_environ, world0, wsVars, seedFiles, portBusy, watcher, worldVars, req>>

NextExec == ExecCall

ExecSpec == InitExec /\ [][NextExec]_vars

(***************************************************************************)
(* Reading the log.                                                        *)
(***************************************************************************)
Spawned(site) == {i \in DOMAIN log : log[i].kind = "spawn" /\ log[i].text = site}

Exited(site) == {i \in DOMAIN log : log[i].kind = "exit" /\ log[i].text = site}

AllSpawns == {i \in DOMAIN log : log[i].kind = "spawn"}

StderrLines == {i \in DOMAIN log : log[i].kind = "stderr"}

Finished == pc = "exited"

\* the KEY=VALUE strings a docker exec command line injects with -e
InjectedEnv(cmd) ==
    LET names == {k \in DOMAIN cmd : cmd[k] \in {"gdlk_db_1", "gdlk_api_1"}}
        name  == IF names = {} THEN Len(cmd) + 1
                 ELSE CHOOSE k \in names : \A m \in names : k <= m
    IN  {cmd[j + 1] : j \in {j \in 1..(name - 2) : cmd[j] = "-e"}}

(***************************************************************************)
(* C1: revert-all on a database with N applied migrations, when the revert *)
(* tool fails only because nothing is left to revert, issues exactly N + 1 *)
(* reverts against the api container, the first N exit with 0 and the last *)
(* one fails, and the CLI finishes with status 0 and an empty error        *)
(* stream.                                                                 *)
(***************************************************************************)
C1_RevertAllCount ==
    (Finished /\ args.cmd = "migration" /\ args.action = "revert-all"
        /\ faults = 0) =>
        /\ Cardinality(Spawned("revert_all")) = world0.migrations + 1
        /\ Cardinality({i \in Exited("revert_all") : log[i].rc = 0})
               = world0.migrations
        /\ Cardinality({i \in Exited("revert_all") : log[i].rc # 0}) = 1
        /\ \A i \in Spawned("revert_all") :
               log[i].cmd = <<"docker", "exec", "-t", "gdlk_api_1", "diesel",
                              "migration", "revert">>
        /\ AllSpawns = Spawned("revert_all")
        /\ log[Len(log)].kind = "exit" /\ log[Len(log)].rc # 0
        /\ exitStatus = 0
        /\ exc = NoExc
        /\ StderrLines = {}

C1_Witness ==
    /\ Finished /\ args.action = "revert-all" /\ faults = 0
    /\ world0.migrations = MaxMigrations
    /\ Cardinality(Spawned("revert_all")) = MaxMigrations + 1
    /\ exitStatus = 0

(***************************************************************************)
(* C2: a non-zero exit of the test runner of any crate, core or api, never *)
(* leaves Test.run as an exception, and the loop goes on to the crates     *)
(* that follow.                                                            *)
(***************************************************************************)
C2_TestFailureSwallowed ==
    /\ exc.site \notin {"test_core", "api_run"}
    /\ \A i \in Exited("test_core") \cup Exited("api_run") :
           (log[i].rc # 0 /\ i = Len(log)) => pc = "test_loop"

(***************************************************************************)
(* C3: test with crates = [api], debug off and an existing gdlk_test:      *)
(* drop, create and migrate exit with 0, the test run is started with      *)
(* DATABASE_URL=postgres://root:root@db/gdlk_test and DEBUG=0 injected,    *)
(* and the CLI returns normally whatever the exit code of the test run.    *)
(***************************************************************************)
C3_Scenario ==
    /\ args.cmd = "test" /\ args.crates = <<"api">> /\ ~args.debug
    /\ faults = 0
    /\ \E i \in Exited("api_drop") : log[i].rc = 0

C3_ApiScenario ==
    (C3_Scenario /\ Finished) =>
        /\ \A i \in Exited("api_drop") \cup Exited("api_create")
                   \cup Exited("api_migrate") : log[i].rc = 0
        /\ Cardinality(Spawned("api_run")) = 1
        /\ \A i \in Spawned("api_run") :
               {"DATABASE_URL=postgres://root:root@db/gdlk_test", "DEBUG=0"}
                   \subseteq InjectedEnv(log[i].cmd)
        /\ exitStatus = 0

(***************************************************************************)
(* C4: the crates are tested one after the other in the order of the plan, *)
(* which defaults to core, api: every command belongs to the crate of the  *)
(* last banner, a command is only issued once the previous one has exited, *)
(* and with [core, api] the core runner has exited before the first api    *)
(* command, also when the api test run fails afterwards.                   *)
(***************************************************************************)
Banner(crate) == "===== Testing " \o crate \o " ====="

BannerIdx ==
    {i \in DOMAIN log :
        log[i].kind = "stdout" /\ \E c \in CrateNames : log[i].text = Banner(c)}

BannersUpTo(i) == Cardinality({j \in BannerIdx : j <= i})

SiteCrate(site) == IF site = "test_core" THEN "core" ELSE "api"

C4_SequentialCrates ==
    (args.cmd = "test") =>
        /\ argv.crates = <<>> => args.crates = <<"core", "api">>
        /\ \A i \in BannerIdx :
               /\ BannersUpTo(i) <= Len(args.crates)
               /\ log[i].text = Banner(args.crates[BannersUpTo(i)])
        /\ \A i \in AllSpawns :
               /\ BannersUpTo(i) >= 1
               /\ SiteCrate(log[i].text) = args.crates[BannersUpTo(i)]
               /\ \A j \in AllSpawns :
                      j < i => \E e \in DOMAIN log :
                                   /\ j < e /\ e < i
                                   /\ log[e].kind = "exit"
                                   /\ log[e].cmd = log[j].cmd
        /\ args.crates = <<"core", "api">> =>
               \A i \in AllSpawns :
                   SiteCrate(log[i].text) = "api" =>
                       \E e \in Exited("test_core") :
                           e < i /\ BannersUpTo(e) = 1

C4_Witness ==
    /\ Finished /\ argv.cmd = "test" /\ argv.crates = <<>>
    /\ \E e \in Exited("test_core"), f \in Exited("api_run") :
           e < f /\ log[f].rc # 0

(***************************************************************************)
(* C5: when createdb exits non-zero in the api test lifecycle, the failure *)
(* leaves test_api as an exception, no further command is issued, and the  *)
(* CLI exits with the exit code of createdb.                               *)
(***************************************************************************)
C5_CreateFailurePropagates ==
    \A i \in Exited("api_create") :
        log[i].rc # 0 =>
            /\ \A j \in AllSpawns : j < i
            /\ pc \in {"main_except", "exited"}
            /\ exc.type = "CalledProcessError"
            /\ exc.site = "api_create"
            /\ exc.returncode = log[i].rc
            /\ (Finished /\ log[i].rc > 0) => exitStatus = log[i].rc

C5_Witness ==
    /\ Finished
    /\ \E i \in Exited("api_create") : log[i].rc > 0 /\ exitStatus = log[i].rc

(***************************************************************************)
(* C6: in the api test lifecycle a failure of dropdb never becomes an      *)
(* exception and createdb is always the next command after dropdb; when    *)
(* the tools fail only for the state of the database, dropdb succeeds iff  *)
(* gdlk_test existed and the createdb that follows succeeds either way.    *)
(***************************************************************************)
C6_DropThenCreate ==
    /\ exc.site # "api_drop"
    /\ \A i \in Exited("api_drop") :
           IF i = Len(log)
           THEN pc = "api_create" /\ child = NoChild /\ exc = NoExc
           ELSE /\ i + 2 <= Len(log)
                /\ log[i + 1].kind = "stdout"
                /\ log[i + 2].kind = "spawn"
                /\ log[i + 2].text = "api_create"
                /\ log[i + 2].cmd = <<"docker", "exec", "-t", "gdlk_db_1",
                                      "createdb", "gdlk_test">>
    /\ faults = 0 =>
           /\ \A i \in Exited("api_create") : log[i].rc = 0
           /\ \A i \in Exited("api_drop") :
                  (\A j \in Exited("api_drop") : i <= j) =>
                      (log[i].rc = 0 <=> world0.testDb)

C6_Witness ==
    /\ faults = 0 /\ ~world0.testDb
    /\ \E d \in Exited("api_drop"), c \in Exited("api_create") :
           d < c /\ log[d].rc # 0 /\ log[c].rc = 0

(***************************************************************************)
(* C7: the command line run_in_docker_service builds is, position by       *)
(* position: docker, exec, -i iff interactive (default off), -t iff tty    *)
(* (default on), one -e KEY=VALUE pair per entry of env in insertion       *)
(* order, the container name gdlk_<service>_1, then argv unchanged.        *)
(***************************************************************************)
C7_CommandLineLayout ==
    (built # <<>>) =>
        LET interactive == IF "interactive" \in DOMAIN req.kw
                           THEN req.kw["interactive"] ELSE FALSE
            tty == IF "tty" \in DOMAIN req.kw THEN req.kw["tty"] ELSE TRUE
            env == IF "env" \in DOMAIN req.kw THEN req.kw["env"] ELSE <<>>
            flags == (IF interactive THEN 1 ELSE 0) + (IF tty THEN 1 ELSE 0)
            name == 2 + flags + 2 * Len(env) + 1
        IN  /\ Len(built) = name + Len(req.cmd)
            /\ built[1] = "docker" /\ built[2] = "exec"
            /\ interactive => built[3] = "-i"
            /\ tty => built[IF interactive THEN 4 ELSE 3] = "-t"
            /\ \A k \in 1..Len(env) :
                   /\ built[2 + flags + 2 * k - 1] = "-e"
                   /\ built[2 + flags + 2 * k] = env[k][1] \o "=" \o env[k][2]
            /\ built[name] = "gdlk_" \o req.service \o "_1"
            /\ \A k \in 1..Len(req.cmd) : built[name + k] = req.cmd[k]

C7_Witness ==
    /\ pc = "exec_wait"
    /\ DOMAIN req.kw = {"env"}
    /\ req.kw["env"] = << <<"DEBUG", "1">>, <<"DATABASE_URL", "x">> >>
    /\ built = <<"docker", "exec", "-t", "-e", "DEBUG=1", "-e",
                 "DATABASE_URL=x", "gdlk_api_1", "psql">>

(***************************************************************************)
(* C8: when two class definitions are decorated with the same name, the    *)
(* second one raises while the module is executed: main() is never         *)
(* entered, no argument is parsed, no sub-parser exists for the name, no   *)
(* command runs, and the second class is never put into the registry.      *)
(***************************************************************************)
DuplicateDecls ==
    {p \in (DOMAIN decls) \X (DOMAIN decls) :
        p[1] < p[2] /\ decls[p[1]][1] = decls[p[2]][1]}

C8_DuplicateIsFatal ==
    \A p \in DuplicateDecls :
        /\ pc \in {"import", "uncaught", "exited"}
        /\ regIdx <= p[2]
        /\ subparsers = {}
        /\ args = NoArgs
        /\ AllSpawns = {}
        /\ \A i \in DOMAIN COMMANDS : COMMANDS[i] # decls[p[2]]
        /\ pc # "import" =>
               /\ regIdx = p[2]
               /\ exc.type = "ValueError"
        /\ Finished => exitStatus = 1

C8_Witness ==
    /\ Finished
    /\ DuplicateDecls # {}
    /\ exc.type = "ValueError"
    /\ \E p \in DuplicateDecls : decls[p[1]][2] = "Extra"

(***************************************************************************)
(* C9: a child that exits with a code above zero anywhere but in the drop  *)
(* step, the api test run or revert-all makes the CLI stop: the exception  *)
(* reaches main, its message, which names the command line and the code,   *)
(* is the last thing written, to the error stream, and the CLI exits with  *)
(* that code.                                                              *)
(***************************************************************************)
HandledSites == {"api_drop", "api_run", "revert_all"}

C9_UnhandledFailureExits ==
    \A i \in DOMAIN log :
        (/\ log[i].kind = "exit"
         /\ log[i].rc > 0
         /\ log[i].text \in CallSites \ HandledSites) =>
            /\ pc \in {"main_except", "exited"}
            /\ exc = [type |-> "CalledProcessError", cmd |-> log[i].cmd,
                      returncode |-> log[i].rc, site |-> log[i].text]
            /\ \A j \in AllSpawns : j < i
            /\ Finished =>
                   /\ exitStatus = log[i].rc
                   /\ Len(log) = i + 1
                   /\ log[i + 1].kind = "stderr"
                   /\ log[i + 1].text = StrCalledProcessError(exc)
                   /\ log[i + 1].cmd = log[i].cmd

C9_Witness ==
    /\ Finished
    /\ exitStatus = 101
    /\ exc.site = "test_core"
    /\ log[Len(log)].text =
           "Command '['cargo', 'test', '-p', 'gdlk', '--', '--nocapture']'"
               \o " returned non-zero exit status 101."

(***************************************************************************)
(* C10: every subprocess the tool starts, in every command, is preceded in *)
(* the output by the echo of its command line.                             *)
(***************************************************************************)
C10_EverySpawnEchoed ==
    \A i \in AllSpawns :
        /\ i > 1
        /\ log[i - 1].kind = "stdout"
        /\ log[i - 1].text = EchoLine(log[i].cmd)

(***************************************************************************)
(* C11: once Docs.run has started the watcher, it calls terminate() on it  *)
(* before it returns or raises, on every way out of the try block: the     *)
(* watcher exited, the operator interrupted the wait or the server, or the *)
(* server could not bind; the watcher is never left running.               *)
(***************************************************************************)
DocsRunLeft == args.cmd = "doc" /\ pc \in {"main_return", "uncaught", "exited"}

C11_WatcherTerminated ==
    (DocsRunLeft /\ Spawned("doc_popen") # {}) =>
        /\ watcher \in {"exited", "terminated"}
        /\ \E s \in Spawned("doc_popen") :
               \E t \in DOMAIN log :
                   /\ s < t
                   /\ log[t].kind = "terminate"
                   /\ log[t].cmd = log[s].cmd

C11_Witness ==
    /\ Finished
    /\ args.cmd = "doc" /\ args.serve /\ args.port = 9000
    /\ exc.type = "OSError"
    /\ watcher = "terminated"

(***************************************************************************)
(* C12: migration run, revert and redo each issue exactly one command, in  *)
(* the api container, which is diesel migration with the same action, and  *)
(* a non-zero exit of it reaches main and becomes the exit status.         *)
(***************************************************************************)
SingleActions == {"run", "revert", "redo"}

C12_SingleMigrationCall ==
    (args.cmd = "migration" /\ args.action \in SingleActions) =>
        /\ AllSpawns = Spawned("migrate_action")
        /\ Cardinality(AllSpawns) <= 1
        /\ \A i \in AllSpawns :
               log[i].cmd = <<"docker", "exec", "-t", "gdlk_api_1", "diesel",
                              "migration", args.action>>
        /\ \A i \in Exited("migrate_action") :
               log[i].rc # 0 =>
                   /\ pc \in {"main_except", "exited"}
                   /\ exc.type = "CalledProcessError"
                   /\ exc.returncode = log[i].rc
                   /\ Finished => exitStatus = ExitCode(log[i].rc)
                                      /\ exitStatus # 0
        /\ Finished =>
               /\ Cardinality(AllSpawns) = 1
               /\ Cardinality(Exited("migrate_action")) = 1

C12_Witness ==
    /\ Finished
    /\ args.cmd = "migration" /\ args.action = "redo"
    /\ world0.migrations = 0
    /\ faults = 0
    /\ exitStatus = 1

(***************************************************************************)
(* C13: once the module has been executed, no step of main(), of argument  *)
(* parsing, of dispatch or of any command changes the registry: no entry   *)
(* is added, removed or replaced.                                          *)
(***************************************************************************)
C13_RegistryWriteOnce == [][pc # "import" => COMMANDS' = COMMANDS]_vars

C13_Witness ==
    /\ Finished
    /\ args.cmd = "test"
    /\ Spawned("api_run") # {}
    /\ COMMANDS = ModuleDecls

(***************************************************************************)
(* The container commands of one test run of the api crate follow the      *)
(* given list of steps: only these commands, each at most once, in this    *)
(* order, none skipped, each issued after the previous one has exited, and *)
(* the migration with DEBUG and DATABASE_URL injected.                     *)
(***************************************************************************)
ApiSites == {"api_drop", "api_create", "api_init", "api_migrate", "api_run"}

StepPos(steps, site) == CHOOSE p \in DOMAIN steps : steps[p] = site

ApiSpawns == {i \in AllSpawns : log[i].text \in ApiSites}

FollowsLifecycle(steps) ==
    \A i \in ApiSpawns :
        /\ \E p \in DOMAIN steps : steps[p] = log[i].text
        /\ \A j \in ApiSpawns :
               (j < i /\ BannersUpTo(j) = BannersUpTo(i)) =>
                   StepPos(steps, log[j].text) < StepPos(steps, log[i].text)
        /\ StepPos(steps, log[i].text) > 1 =>
               \E j \in ApiSpawns :
                   /\ j < i /\ BannersUpTo(j) = BannersUpTo(i)
                   /\ log[j].text = steps[StepPos(steps, log[i].text) - 1]
                   /\ \E e \in Exited(log[j].text) : j < e /\ e < i
        /\ log[i].text = "api_migrate" =>
               {"DEBUG=" \o StrIntBool(args.debug),
                "DATABASE_URL=postgres://root:root@db/gdlk_test"}
                   \subseteq InjectedEnv(log[i].cmd)

(***************************************************************************)
(* C14 as stated: the commands of one api test run are exactly the four    *)
(* steps drop, create, migrate, run, with nothing between create and       *)
(* migrate.                                                                *)
(***************************************************************************)
C14_FourSteps ==
    FollowsLifecycle(<<"api_drop", "api_create", "api_migrate", "api_run">>)

(***************************************************************************)
(* C14 amended: the commands of one api test run are exactly the five      *)
(* steps drop, create, init scripts, migrate, run, in this order; the      *)
(* init scripts of the database image run between create and migrate.     *)
(***************************************************************************)
C14_FiveSteps ==
    FollowsLifecycle(<<"api_drop", "api_create", "api_init", "api_migrate",
                       "api_run">>)

C14_Witness ==
    /\ Finished
    /\ args.crates = <<"api">>
    /\ Cardinality(ApiSpawns) = 5
    /\ Exited("api_run") # {}
    /\ \E i \in Spawned("api_init") :
           log[i].cmd = <<"docker", "exec", "-t", "gdlk_db_1", "sh", "-c",
                          "psql gdlk_test -f /docker-entrypoint-initdb.d/*">>

(***************************************************************************)
(* C15: revert-all stops at the first revert that exits non-zero, whether  *)
(* nothing was left to revert or the tool failed with migrations still     *)
(* applied: no revert follows, no exception leaves revert_all, and the CLI *)
(* exits with status 0 and an empty error stream in both cases.            *)
(***************************************************************************)
C15_RevertAllStopsOnAnyFailure ==
    (args.cmd = "migration" /\ args.action = "revert-all") =>
        \A i \in Exited("revert_all") :
            log[i].rc # 0 =>
                /\ i = Len(log)
                /\ pc \in {"main_return", "exited"}
                /\ child = NoChild
                /\ exc = NoExc
                /\ Finished => exitStatus = 0 /\ StderrLines = {}

C15_Witness ==
    /\ Finished
    /\ args.action = "revert-all"
    /\ faults = 1
    /\ migrations > 0
    /\ exitStatus = 0
    /\ log[Len(log)].rc = 125

(***************************************************************************)
(* C16: once a CalledProcessError has left a command handler, the CLI      *)
(* starts no further subprocess: the failed command is not run again, no   *)
(* later step and no later crate is run; all that follows the exit of the  *)
(* failed child is the message of main() and the exit of the process.      *)
(***************************************************************************)
C16_NothingAfterPropagation ==
    (exc.type = "CalledProcessError") =>
        /\ pc \in {"main_except", "exited"}
        /\ child = NoChild
        /\ \E e \in Exited(exc.site) :
               /\ log[e].cmd = exc.cmd /\ log[e].rc = exc.returncode
               /\ \A j \in AllSpawns : j < e
               /\ Len(log) = IF Finished THEN e + 1 ELSE e
               /\ Finished => log[e + 1].kind = "stderr"
        /\ Finished => exitStatus = ExitCode(exc.returncode)

C16_Witness ==
    /\ Finished
    /\ args.crates = <<"api", "core">>
    /\ exc.site = "api_create"
    /\ Spawned("api_init") = {}
    /\ Spawned("test_core") = {}
    /\ Cardinality(Spawned("api_create")) = 1

(***************************************************************************)
(* C17: run_cmd never changes the environment of the CLI process.  With an *)
(* env overlay the child gets a mapping with the inherited entries and the *)
(* entries of env, where env wins on a common key; without one it inherits *)
(* the environment as it is.                                               *)
(***************************************************************************)
TestCoreOverlay ==
    << <<"DEBUG", StrIntBool(args.debug)>>,
       <<"RUST_BACKTRACE", args.backtrace>> >>

IsOverlaid(e, environ, overlay) ==
    /\ Len(e) = Cardinality(DictKeys(e))
    /\ DictKeys(e) = DictKeys(environ) \cup DictKeys(overlay)
    /\ \A k \in DictKeys(overlay) : DictGet(e, k) = DictGet(overlay, k)
    /\ \A k \in DictKeys(environ) \ DictKeys(overlay) :
           DictGet(e, k) = DictGet(environ, k)

ChildEnvironments ==
    \A i \in AllSpawns :
        IF log[i].text = "test_core"
        THEN IsOverlaid(log[i].env, os_environ, TestCoreOverlay)
        ELSE log[i].env = os_environ

C17_ParentEnvironmentKept ==
    /\ [](os_environ \in EnvironInputs /\ ChildEnvironments)
    /\ [][os_environ' = os_environ]_vars

C17_Witness ==
    /\ Finished
    /\ ~args.debug
    /\ "DEBUG" \in DictKeys(os_environ)
    /\ DictGet(os_environ, "DEBUG") = "1"
    /\ \E i \in Spawned("test_core") :
           /\ DictGet(log[i].env, "DEBUG") = "0"
           /\ DictGet(log[i].env, "PATH") = "/usr/bin"
    /\ \E i \in Exited("test_core") : log[i].rc # 0

(***************************************************************************)
(* C18: the api test runner is only started after createdb, the init       *)
(* scripts and the migration of the same run have exited with 0; when the  *)
(* init scripts or the migration exit non-zero the exception leaves        *)
(* Test.run, and neither the api test runner nor any later crate is run.   *)
(***************************************************************************)
ProvisioningSites == {"api_create", "api_init", "api_migrate"}

C18_RunOnlyAfterProvisioning ==
    /\ \A i \in Spawned("api_run") :
           \A s \in ProvisioningSites :
               \E e \in Exited(s) :
                   /\ e < i
                   /\ BannersUpTo(e) = BannersUpTo(i)
                   /\ log[e].rc = 0
    /\ \A e \in Exited("api_init") \cup Exited("api_migrate") :
           log[e].rc # 0 =>
               /\ pc \in {"main_except", "exited"}
               /\ exc.type = "CalledProcessError"
               /\ exc.site = log[e].text
               /\ exc.returncode = log[e].rc
               /\ \A j \in AllSpawns \cup BannerIdx : j < e

C18_Witness ==
    /\ Finished
    /\ args.crates = <<"api", "core">>
    /\ exc.site = "api_migrate"
    /\ Spawned("api_run") = {}
    /\ Spawned("test_core") = {}

(***************************************************************************)
(* The websocket client: ws() of src/test_socket.py and of                 *)
(* src/server/test_socket.py.  The server is the environment: it answers   *)
(* every message with one message of its choice.                           *)
(***************************************************************************)

\* the longest run the server may keep answering "not complete"
MaxSteps == 2

\* a text file is the sequence of its characters
Whitespace == {" ", "\n"}

RECURSIVE LStrip(_)
LStrip(cs) ==
    IF cs # <<>> /\ Head(cs) \in Whitespace THEN LStrip(Tail(cs)) ELSE cs

RECURSIVE RStrip(_)
RStrip(cs) ==
    IF cs # <<>> /\ cs[Len(cs)] \in Whitespace
    THEN RStrip(SubSeq(cs, 1, Len(cs) - 1))
    ELSE cs

\* str.strip()
Strip(cs) == RStrip(LStrip(cs))

\* the string escapes of json.dumps
RECURSIVE JsonEscape(_)
JsonEscape(cs) ==
    IF cs = <<>> THEN ""
    ELSE (IF Head(cs) = "\n" THEN "\\n" ELSE Head(cs)) \o JsonEscape(Tail(cs))

\* json.dumps({"type": event_type, "content": content}); content is None
\* (the empty sequence) or {"source": source}
JsonDumps(event_type, content) ==
    "{\"type\": \"" \o event_type \o "\", \"content\": "
        \o (IF content = <<>> THEN "null"
            ELSE "{\"source\": \"" \o JsonEscape(content[1]) \o "\"}")
        \o "}"

\* source = f.read().strip()
WsSource == Strip(wsArgs.file)

\* the address websockets.connect is given
WsUrl ==
    IF wsArgs.script = "src/test_socket.py"
    THEN wsArgs.host \o "/ws/programs/" \o wsArgs.program_spec_id \o "/"
    ELSE wsArgs.uri

WsFiles ==
    { <<"R", "E", "A", "D", "\n">>,
      <<" ", "R", "\n", "W", " ", "\n">>,
      <<"?">> }

WsInputs ==
    [script : {"src/test_socket.py"}, host : {"ws://localhost:8000"},
     program_spec_id : {"1", "2"}, uri : {""}, file : WsFiles]
    \cup
    [script : {"src/server/test_socket.py"}, host : {""},
     program_spec_id : {""}, uri : {"ws://localhost:8080/ws/"},
     file : WsFiles]

\* the messages sent and received so far, oldest first
WsMsgs == SelectSeq(log, LAMBDA e : e.kind \in {"send", "recv"})

WsSent == SelectSeq(log, LAMBDA e : e.kind = "send")

StepsSent == Len(SelectSeq(WsSent, LAMBDA e : e.text = "step"))

\* json.loads(await websocket.recv()): what the server may answer
Resp(type, is_complete, parse_error) ==
    [type |-> type, is_complete |-> is_complete, parse_error |-> parse_error]

ServerResponses ==
    {Resp("machine_state", TRUE, FALSE),
     Resp("compile_error", FALSE, TRUE),
     Resp("compile_error", FALSE, FALSE),
     Resp("malformed_message", FALSE, FALSE)}
    \cup (IF StepsSent < MaxSteps
          THEN {Resp("machine_state", FALSE, FALSE)}
          ELSE {})

\* f"{recv}"
ReprResp(r) ==
    "{'type': '" \o r.type \o "', 'content': "
        \o (IF r.type = "machine_state"
            THEN "{'is_complete': "
                     \o (IF r.is_complete THEN "True" ELSE "False") \o "}"
            ELSE IF r.type = "compile_error"
            THEN (IF r.parse_error THEN "[{'ParseError': '?'}]"
                  ELSE "[{'TypeError': '?'}]")
            ELSE "'?'")
        \o "}"

\* the first half of send_and_recv: print the message and send it
SendEvents(event_type, content) ==
    << Ev("stdout", "<<< " \o JsonDumps(event_type, content), <<>>, 0, <<>>),
       Ev("send", event_type, content, 0, <<>>) >>

\* the second half of send_and_recv: receive one message and print it
RecvEvents(r) ==
    << Ev("recv", r.type, <<>>, IF r.is_complete THEN 1 ELSE 0, <<>>) >>
    \o (IF /\ wsArgs.script = "src/test_socket.py"
           /\ r.type = "compile_error"
           /\ r.parse_error
        THEN << Ev("stdout", ">>> Parse Error:\n?\n", <<>>, 0, <<>>) >>
        ELSE <<>>)
    \o << Ev("stdout", ">>> " \o ReprResp(r), <<>>, 0, <<>>) >>

InitWs ==
    /\ decls = ModuleDecls
    /\ regIdx = 1
    /\ COMMANDS = <<>>
    /\ subparsers = {}
    /\ pc = "ws_open"
    /\ argv = NoArgs
    /\ args = NoArgs
    /\ crateIdx = 1
    /\ seedIdx = 1
    /\ child = NoChild
    /\ exc = NoExc
    /\ log = <<>>
    /\ exitStatus = NotExited
    /\ os_environ = <<>>
    /\ migrations = 0
    /\ world0 = [migrations |-> 0, testDb |-> FALSE]
    /\ testDb = FALSE
    /\ seedFiles = <<>>
    /\ portBusy = FALSE
    /\ watcher = "none"
    /\ faults = 0
    /\ req = NoReq
    /\ built = <<>>
    /\ wsArgs \in WsInputs
    /\ state_resp = NoResp

wsFrame == <<regVars, argv, args, crateIdx, seedIdx, child, exc, os_environ,
             world0, seedFiles, portBusy, watcher, worldVars, execVars,
             wsArgs>>

\* websockets.connect(...)
WsOpen ==
    /\ pc = "ws_open"
    /\ log' = Append(log, Ev("connect", WsUrl, <<>>, 0, <<>>))
    /\ pc' = "ws_edit"
    /\ UNCHANGED <<wsFrame, state_resp, exitStatus>>

\* send_and_recv(event_type="edit", content={"source": source}), sending
WsSendEdit ==
    /\ pc = "ws_edit"
    /\ log' = log \o SendEvents("edit", <<WsSource>>)
    /\ pc' = "ws_edit_recv"
    /\ UNCHANGED <<wsFrame, state_resp, exitStatus>>

\* ... receiving; the returned message is dropped
WsRecvEdit ==
    /\ pc = "ws_edit_recv"
    /\ \E r \in ServerResponses : log' = log \o RecvEvents(r)
    /\ pc' = "ws_compile"
    /\ UNCHANGED <<wsFrame, state_resp, exitStatus>>

\* state_resp = await send_and_recv(event_type="compile"), sending
WsSendCompile ==
    /\ pc = "ws_compile"
    /\ log' = log \o SendEvents("compile", <<>>)
    /\ pc' = "ws_compile_recv"
    /\ UNCHANGED <<wsFrame, state_resp, exitStatus>>

\* ... receiving
WsRecvCompile ==
    /\ pc = "ws_compile_recv"
    /\ \E r \in ServerResponses :
         /\ log' = log \o RecvEvents(r)
         /\ state_resp' = r
    /\ pc' = "ws_while"
    /\ UNCHANGED <<wsFrame, exitStatus>>

\* the mutated loop condition: the type of the message is not looked at
WsWhileCond_AnyType(resp) == ~resp.is_complete

\* the condition of the while loop
WsWhileCond(resp) == resp.type = "machine_state" /\ ~resp.is_complete

\* the while loop: send "step", or leave the connection's block
WsWhile ==
    /\ pc = "ws_while"
    /\ IF WsWhileCond(state_resp)
       THEN /\ log' = log \o SendEvents("step", <<>>)
            /\ pc' = "ws_step_recv"
            /\ exitStatus' = exitStatus
       ELSE /\ log' = Append(log, Ev("close", WsUrl, <<>>, 0, <<>>))
            /\ pc' = "exited"
            /\ exitStatus' = 0
    /\ UNCHANGED <<wsFrame, state_resp>>

\* state_resp = await send_and_recv(event_type="step"), receiving
WsRecvStep ==
    /\ pc = "ws_step_recv"
    /\ \E r \in ServerResponses :
         /\ log' = log \o RecvEvents(r)
         /\ state_resp' = r
    /\ pc' = "ws_while"
    /\ UNCHANGED <<wsFrame, exitStatus>>

NextWs ==
    \/ WsOpen
    \/ WsSendEdit
    \/ WsRecvEdit
    \/ WsSendCompile
    \/ WsRecvCompile
    \/ WsWhile
    \/ WsRecvStep

WsSpec == InitWs /\ [][NextWs]_vars

(***************************************************************************)
(* C19: the request/response protocol of the websocket client.             *)
(***************************************************************************)

\* a response after which the loop of ws() is over
EndsRun(e) == e.text # "machine_state" \/ e.rc = 1

\* the messages sent are "edit", then "compile", then only "step"
WsOrder ==
    \A i \in 1..Len(WsSent) :
        WsSent[i].text =
            (IF i = 1 THEN "edit" ELSE IF i = 2 THEN "compile" ELSE "step")

\* messages alternate: one sent, one received, one sent, ...
WsAlternates ==
    \A i \in 1..Len(WsMsgs) :
        WsMsgs[i].kind = (IF i % 2 = 1 THEN "send" ELSE "recv")

\* a "step" directly follows a machine_state response with is_complete false
WsStepOnlyWhileRunning ==
    \A i \in 1..Len(WsMsgs) :
        (WsMsgs[i].kind = "send" /\ WsMsgs[i].text = "step")
            => /\ i > 1
               /\ WsMsgs[i - 1].kind = "recv"
               /\ ~EndsRun(WsMsgs[i - 1])

\* nothing is sent after a response, at position first or later, that is not
\* a machine_state or that reports is_complete true
WsStopsAfter(first) ==
    \A i \in first..Len(WsMsgs) :
        (WsMsgs[i].kind = "recv" /\ EndsRun(WsMsgs[i]))
            => \A j \in (i + 1)..Len(WsMsgs) : WsMsgs[j].kind # "send"

====
